---- MODULE Spec2Model ----
(***************************************************************************)
(* PA-Broker: a personal API gateway holding one OAuth2 credential set in  *)
(* a JSON file and proxying Gmail / Calendar / Contacts requests.          *)
(* Two application variants exist in the repository: src/app.py (variant   *)
(* "app") and src/App.py (variant "App").  Both are modelled; the variable *)
(* `variant` says which one is deployed.                                   *)
(***************************************************************************)
EXTENDS Integers, Sequences, FiniteSets, TLC

\* ------------------------------------------------------------------ bounds
MaxTicks == 1          \* how many times the clock advances in a behaviour
MaxFlush == 2          \* entries written by a flush that fills the file buffer
MaxMsgs  == 2          \* messages listed by the downstream for unread_detail
MaxInstant == 3700     \* latest instant at which a refresh decision is taken

\* ------------------------------------------------------- program constants
MARGIN           == 60      \* safety margin subtracted from / applied to expiry
DEFAULT_TTL_app  == 3600    \* app.py default for a missing expires_in
DEFAULT_TTL_App  == 3500    \* App.py default for a missing expires_in

Workers  == {"w1", "w2"}
Variants == {"app", "App"}

\* ---------------------------------------------------- python dict helpers
\* A dict is a function whose domain is the set of keys present.
EmptyDict == [k \in {} |-> 0]
None      == "None"

Has(d, k)        == k \in DOMAIN d
Get(d, k, dflt)  == IF k \in DOMAIN d THEN d[k] ELSE dflt
DictSet(d, k, v) == [x \in (DOMAIN d) \cup {k} |-> IF x = k THEN v ELSE d[x]]

\* ------------------------------------------------------ json dump / load
KeyOrder == <<"access_token", "expires_in", "refresh_token", "token_type", "expires_at">>
Keys     == {KeyOrder[i] : i \in 1..Len(KeyOrder)}

RECURSIVE EncodeFrom(_, _)
EncodeFrom(d, i) ==
    IF i > Len(KeyOrder) THEN <<>>
    ELSE IF KeyOrder[i] \in DOMAIN d
         THEN <<[k |-> KeyOrder[i], v |-> d[KeyOrder[i]]]>> \o EncodeFrom(d, i + 1)
         ELSE EncodeFrom(d, i + 1)

\* json.dump(data, f): the text written, as a sequence of lexical entries
json_dump(d) == <<[k |-> "{", v |-> "{"]>> \o EncodeFrom(d, 1) \o <<[k |-> "}", v |-> "}"]>>

WellFormed(s) ==
    /\ Len(s) >= 2
    /\ s[1].k = "{"
    /\ s[Len(s)].k = "}"
    /\ \A i \in 2..(Len(s) - 1) : s[i].k \in Keys
    /\ \A i, j \in 2..(Len(s) - 1) : s[i].k = s[j].k => i = j

\* json.load(f): the dict read back; only called on well-formed text
json_load(s) ==
    [key \in {s[i].k : i \in 2..(Len(s) - 1)} |->
        (CHOOSE e \in {s[i] : i \in 2..(Len(s) - 1)} : e.k = key).v]

\* ------------------------------------------------------------- the store
NoFile == <<[k |-> "nofile", v |-> "nofile"]>>

\* app.py load_tokens: {} when the file is missing or does not parse
load_tokens(f) ==
    IF f = NoFile THEN EmptyDict
    ELSE IF WellFormed(f) THEN json_load(f) ELSE EmptyDict

\* App.py load_tokens: None when the file is missing, an exception when it
\* does not parse
App_load_tokens(f) ==
    IF f = NoFile THEN [raised |-> FALSE, none |-> TRUE, value |-> EmptyDict]
    ELSE IF WellFormed(f) THEN [raised |-> FALSE, none |-> FALSE, value |-> json_load(f)]
    ELSE [raised |-> TRUE, none |-> TRUE, value |-> EmptyDict]

\* ------------------------------------------------- token endpoint (Google)
AccessTokens  == {"a1", "a2"}
RefreshTokens == {"r1", "r2"}
Absent        == "absent"
TTLs          == {30, 120}
NoTTL         == -1

\* the JSON body of a 2xx answer of https://oauth2.googleapis.com/token
TokenBody(at, rt, ttl) ==
    LET b0 == [k \in {"token_type"} |-> "Bearer"]
        b1 == IF at = Absent THEN b0 ELSE DictSet(b0, "access_token", at)
        b2 == IF rt = Absent THEN b1 ELSE DictSet(b1, "refresh_token", rt)
    IN  IF ttl = NoTTL THEN b2 ELSE DictSet(b2, "expires_in", ttl)

\* the 2xx answers the endpoint is observed to give: <<access_token,
\* refresh_token, expires_in>>, each possibly left out of the body
TokenAnswers ==
    { <<"a1", "r1", 120>>,   <<"a2", "r2", NoTTL>>, <<"a2", "r2", 30>>,
      <<"a1", Absent, 30>>,  <<"a2", Absent, 120>>, <<Absent, "r1", 120>> }

TokenFailures == {"network", "timeout", "status"}

\* ------------------------------------------------------------- the routes
ProxyRoutes_app ==
    {"/gmail/unread", "/gmail/message", "/gmail/send", "/gmail/unread_detail",
     "/gmail/reply", "/gmail/mark_read", "/gmail/archive", "/calendar/events",
     "/calendar/create", "/contacts/list", "/contacts/search", "/contacts/get"}
ProxyRoutes_App ==
    {"/gmail/unread", "/gmail/message", "/gmail/send", "/calendar/events",
     "/calendar/create", "/contacts/list", "/contacts/search", "/contacts/get"}
ProxyRoutes(v) == IF v = "app" THEN ProxyRoutes_app ELSE ProxyRoutes_App

\* the fields / query parameters a route needs from the caller
RequiredFields(route) ==
    CASE route \in {"/gmail/message", "/gmail/mark_read", "/gmail/archive", "/contacts/get"} -> {"id"}
      [] route = "/gmail/send"       -> {"to"}
      [] route = "/gmail/reply"      -> {"id", "body"}
      [] route = "/calendar/create"  -> {"summary", "start", "end"}
      [] route = "/contacts/search"  -> {"q"}
      [] OTHER                       -> {}

\* a request either carries every required field or omits exactly one
OmitChoices(route) == {"none"} \cup RequiredFields(route)

ApiKeys      == {"", "k"}            \* ACTION_API_KEY: unset/empty, or set
GivenKeys    == {"", "k"}            \* the x-api-key header ("" = not sent)

\* app.py require_api_key: TRUE when the wrapper answers Forbidden
require_api_key_rejects(API_KEY_, given) == API_KEY_ # "" /\ given # API_KEY_

\* App.py require_api_key(req) is falsy: TRUE when the handler answers Forbidden
App_require_api_key_rejects(API_KEY_, given) == ~(API_KEY_ # "" /\ given = API_KEY_)

\* ------------------------------------------------------- credential logic
\* mutants of the expiry test: the margin applied a second time; a strict test
IsExpired_app_margin_twice(tokens, t) == Get(tokens, "expires_at", 0) <= t + MARGIN
IsExpired_app_strict(tokens, t)       == Get(tokens, "expires_at", 0) < t

\* app.py:112  int(tokens.get("expires_at", 0)) <= int(time.time())
IsExpired_app(tokens, t) == Get(tokens, "expires_at", 0) <= t

\* mutant: the stored expiry is compared as it is
IsExpired_App_no_margin(tokens, t) == t >= Get(tokens, "expires_at", 0)

\* App.py:55   int(time.time()) >= t.get("expires_at", 0) - 60
IsExpired_App(tokens, t) == t >= Get(tokens, "expires_at", 0) - MARGIN

\* app.py:120-123  the bearer token of the headers, or None
AccessOf(tokens) == IF Has(tokens, "access_token") THEN tokens["access_token"] ELSE None

\* mutant of the merge: the answer is stored as received
MergeRefresh_app_no_carry(body, refresh_token, t) ==
    DictSet(body, "expires_at", t + Get(body, "expires_in", DEFAULT_TTL_app) - MARGIN)

\* app.py:102-104  token_json after a successful refresh answer
MergeRefresh_app(body, refresh_token, t) ==
    DictSet(DictSet(body, "refresh_token", refresh_token),
            "expires_at", t + Get(body, "expires_in", DEFAULT_TTL_app) - MARGIN)

\* mutant: the margin is subtracted when storing as well as when testing
MergeRefresh_App_margin_at_save(body, refresh_token, t) ==
    DictSet(DictSet(body, "refresh_token", refresh_token),
            "expires_at", t + Get(body, "expires_in", DEFAULT_TTL_App) - MARGIN)

\* App.py:46-48  j after a successful refresh answer
MergeRefresh_App(body, refresh_token, t) ==
    DictSet(DictSet(body, "refresh_token", refresh_token),
            "expires_at", t + Get(body, "expires_in", DEFAULT_TTL_App))

\* mutant: only the fields the broker reads are kept
ExchangeTokens_app_selected_fields(body, t) ==
    LET e == [k \in {"expires_at"} |-> t + Get(body, "expires_in", DEFAULT_TTL_app) - MARGIN]
    IN  IF Has(body, "access_token") THEN DictSet(e, "access_token", body["access_token"]) ELSE e

\* app.py:87-90  token_json after a successful code exchange
ExchangeTokens_app(body, t) ==
    DictSet(body, "expires_at", t + Get(body, "expires_in", DEFAULT_TTL_app) - MARGIN)

\* App.py:85-86  j after a successful code exchange
ExchangeTokens_App(body, t) ==
    DictSet(body, "expires_at", t + Get(body, "expires_in", DEFAULT_TTL_App))

\* ------------------------------------------------------------------ state
VARIABLES
    variant,   \* which application file is deployed
    API_KEY,   \* the configured shared secret
    file,      \* content of TOKENS_FILE (NoFile: it does not exist)
    now,       \* int(time.time())
    workers    \* per worker: the request it is handling and where it is

vars == <<variant, API_KEY, file, now, workers>>

Ev(e, a, b, n) == [e |-> e, a |-> a, b |-> b, n |-> n]
NoResp == [kind |-> "-", status |-> 0, body |-> 0]

IdleWorker ==
    [pc |-> "idle", route |-> "-", given |-> "-", omit |-> "-",
     ctx |-> "-", ghCaller |-> "-",
     tokens |-> EmptyDict, rt |-> "-", toWrite |-> <<>>,
     headers |-> None, n |-> 0, left |-> 0, r |-> NoResp,
     resp |-> NoResp,
     \* history of the request, for stating properties
     log |-> <<>>, file0 |-> NoFile,
     ghTokens |-> EmptyDict, ghNow |-> 0, ghFile |-> NoFile, before |-> NoFile,
     ghCalls |-> 0, ghSaves |-> 0, ghAnswer |-> "-", ghResult |-> "-",
     over |-> NoFile]

Init ==
    /\ variant \in Variants
    /\ API_KEY \in ApiKeys
    /\ file = NoFile
    /\ now = 0
    /\ workers = [w \in Workers |-> IdleWorker]

Others == <<variant, API_KEY, now>>

\* --------------------------------------------------------- file writing
Hole == [k |-> "hole", v |-> "hole"]
Max(a, b) == IF a >= b THEN a ELSE b

\* f.write at the writer's own offset (each open file has its own position)
WriteAt(f, off, chunk) ==
    [i \in 1..Max(Len(f), off + Len(chunk)) |->
        IF i > off /\ i <= off + Len(chunk) THEN chunk[i - off]
        ELSE IF i <= Len(f) THEN f[i] ELSE Hole]

\* a flush writes everything buffered, or MaxFlush entries when the buffer
\* filled up before the dump was complete
FlushSizes(n) == {n} \cup (IF MaxFlush < n THEN {MaxFlush} ELSE {})

\* ----------------------------------------------------- answers to caller
Respond(wr, kind, status, body) ==
    [wr EXCEPT !.pc = "done",
               !.resp = [kind |-> kind, status |-> status, body |-> body]]

_need_auth(wr)  == Respond(wr, "need_auth", 401, 0)
_forbidden(wr)  == Respond(wr, "forbidden", 403, 0)
\* an exception nobody catches: Flask answers 500 Internal Server Error
ServerError(wr) == Respond(wr, "server_error", 500, 0)
\* mutant: the body is returned without the status code
Relay_without_status(wr) == Respond(wr, "relay", 200, wr.r.body)

\* return r.json(), r.status_code
Relay(wr)       == Respond(wr, "relay", wr.r.status, wr.r.body)

\* mutant: the except branch answers like the success branch
auth_callback_except_reports_success(wr) == Respond([wr EXCEPT !.ctx = "-"], "exchange_ok", 200, 0)

\* app.py auth_callback, lines 176-177: except Exception -> 400
auth_callback_except(wr) == Respond([wr EXCEPT !.ctx = "-"], "exchange_err", 400, 0)

\* requests.get / requests.post to the provider with the bearer header
IssueCall(wr, headers) ==
    [wr EXCEPT !.pc = "call", !.n = wr.n + 1, !.headers = headers,
               !.log = Append(@, Ev("call", headers, "-", wr.n + 1))]

\* app.py handlers, after headers = _google_headers()
AfterHeaders_app(wr, headers, omit) ==
    IF headers = None THEN _need_auth([wr EXCEPT !.omit = omit])
    ELSE IF omit # "none" THEN Respond([wr EXCEPT !.omit = omit], "bad_request", 400, 0)
    ELSE IssueCall([wr EXCEPT !.omit = omit], headers)

\* App.py handlers, after token = get_access_token()
AfterToken_App(wr, token, omit) ==
    IF token = None THEN _need_auth([wr EXCEPT !.omit = omit])
    ELSE IF wr.route = "/calendar/create"
         THEN IF omit \in {"start", "end"}
              THEN ServerError([wr EXCEPT !.omit = omit])      \* data["start"]: KeyError
              ELSE IssueCall([wr EXCEPT !.omit = omit], token) \* summary has a default
    ELSE IF omit # "none" THEN Respond([wr EXCEPT !.omit = omit], "bad_request", 400, 0)
    ELSE IssueCall([wr EXCEPT !.omit = omit], token)

\* return from _google_headers() to its call site
GhReturn_app(wr, headers, omit) ==
    LET w1 == [wr EXCEPT !.log = Append(@, Ev("gh_end", headers, "-", 0)),
                         !.ctx = "-", !.ghResult = headers]
    IN  IF wr.ghCaller = "first" THEN AfterHeaders_app(w1, headers, omit)
        ELSE IssueCall(w1, headers)              \* app.py:201-207, the retry

\* an exception leaves get_access_token() and the handler
GhRaise(wr, exc) ==
    ServerError([wr EXCEPT !.log = Append(@, Ev("gh_raise", exc, "-", 0)),
                           !.ctx = "-", !.ghResult = "raise"])

\* return from get_access_token(): t["access_token"]
GhReturn_App(wr, tokens, omit) ==
    IF ~Has(tokens, "access_token")
    THEN GhRaise(wr, "KeyError")
    ELSE AfterToken_App([wr EXCEPT !.log = Append(@, Ev("gh_end", tokens["access_token"], "-", 0)),
                                   !.ctx = "-", !.ghResult = tokens["access_token"]],
                        tokens["access_token"], omit)

GhBegin(wr, tokens) ==
    [wr EXCEPT !.log = Append(Append(@, Ev("gh_begin", "-", "-", 0)), Ev("load", "-", "-", 0)),
               !.tokens = tokens, !.ghTokens = tokens, !.ghNow = now, !.ghFile = file,
               !.ghCalls = 0, !.ghSaves = 0, !.ghAnswer = "-", !.ghResult = "pending"]

SendRefresh(wr, ctx, refresh_token) ==
    [wr EXCEPT !.pc = "refresh", !.ctx = ctx, !.rt = refresh_token, !.before = file,
               !.ghCalls = IF ctx = "gh" THEN @ + 1 ELSE @,
               !.log = Append(@, Ev("refresh_call", refresh_token, ctx, 0))]

\* ------------------------------------------------------------- app.py
\* _google_headers(): load, expiry test, up to the refresh request
_google_headers(w) ==
    /\ variant = "app"
    /\ workers[w].pc = "gh"
    /\ \E omit \in OmitChoices(workers[w].route) :
         LET tokens == load_tokens(file)
             w1     == GhBegin(workers[w], tokens)
         IN  workers' = [workers EXCEPT ![w] =
               IF DOMAIN tokens = {} THEN GhReturn_app(w1, None, omit)
               ELSE IF IsExpired_app(tokens, now)
                    THEN IF ~Has(tokens, "refresh_token")
                         THEN GhReturn_app(w1, None, omit)
                         ELSE SendRefresh(w1, "gh", tokens["refresh_token"])
                    ELSE GhReturn_app(w1, AccessOf(tokens), omit)]
    /\ UNCHANGED <<file, Others>>

\* _refresh_access_token(): the token endpoint answers the refresh request
_refresh_access_token(w) ==
    /\ variant = "app"
    /\ workers[w].pc = "refresh"
    /\ \E omit \in OmitChoices(workers[w].route) :
         LET wr == workers[w] IN
         \/ \E why \in TokenFailures :
              LET w1 == [wr EXCEPT !.log = Append(@, Ev("refresh_fail", why, "-", 0)),
                                   !.ghAnswer = IF wr.ctx = "gh" THEN "fail" ELSE @]
              IN  workers' = [workers EXCEPT ![w] =
                    IF wr.ctx = "gh" THEN GhReturn_app(w1, None, omit)   \* app.py:118-119
                    ELSE Relay(w1)]                                      \* app.py:208-210
         \/ \E ans \in TokenAnswers :
              LET at == ans[1]  rt == ans[2]  ttl == ans[3] IN
              workers' = [workers EXCEPT ![w] =
                  [wr EXCEPT !.pc = "save_open",
                             !.tokens = MergeRefresh_app(TokenBody(at, rt, ttl), wr.rt, now),
                             !.ghAnswer = IF wr.ctx = "gh" THEN "ok" ELSE @,
                             !.log = Append(@, Ev("refresh_ok", rt, at, ttl))]]
    /\ UNCHANGED <<file, Others>>

\* ------------------------------------------------------------- App.py
\* get_access_token(): load, expiry test, up to the refresh request
get_access_token(w) ==
    /\ variant = "App"
    /\ workers[w].pc = "gh"
    /\ \E omit \in OmitChoices(workers[w].route) :
         LET ld == App_load_tokens(file)
             t  == ld.value
             w1 == GhBegin(workers[w], t)
         IN  workers' = [workers EXCEPT ![w] =
               IF ld.raised
               THEN GhRaise(w1, "JSONDecodeError")
               ELSE IF ld.none \/ DOMAIN t = {}
               THEN _need_auth([w1 EXCEPT !.log = Append(@, Ev("gh_end", None, "-", 0)),
                                          !.ghResult = None, !.omit = omit])
               ELSE IF IsExpired_App(t, now)
                    THEN IF ~Has(t, "refresh_token")
                         THEN GhRaise(w1, "KeyError")
                         ELSE SendRefresh(w1, "gh", t["refresh_token"])
                    ELSE GhReturn_App(w1, t, omit)]
    /\ UNCHANGED <<file, Others>>

\* refresh_access_token(): the token endpoint answers the refresh request
refresh_access_token(w) ==
    /\ variant = "App"
    /\ workers[w].pc = "refresh"
    /\ LET wr == workers[w] IN
         \/ \E why \in TokenFailures :
              workers' = [workers EXCEPT ![w] =
                  GhRaise([wr EXCEPT !.log = Append(@, Ev("refresh_fail", why, "-", 0)),
                                     !.ghAnswer = "fail"], why)]
         \/ \E ans \in TokenAnswers :
              LET at == ans[1]  rt == ans[2]  ttl == ans[3] IN
              workers' = [workers EXCEPT ![w] =
                  [wr EXCEPT !.pc = "save_open",
                             !.tokens = MergeRefresh_App(TokenBody(at, rt, ttl), wr.rt, now),
                             !.ghAnswer = "ok",
                             !.log = Append(@, Ev("refresh_ok", rt, at, ttl))]]
    /\ UNCHANGED <<file, Others>>

\* ------------------------------------------------------- save_tokens
\* what the caller of save_tokens does when it returns
AfterSave(wr, omit) ==
    LET w1 == [wr EXCEPT !.log = Append(@, Ev("save_end", "-", "-", 0)), !.toWrite = <<>>]
    IN  CASE wr.ctx = "gh" ->
                IF variant = "app" THEN GhReturn_app(w1, AccessOf(wr.tokens), omit)
                ELSE GhReturn_App(w1, wr.tokens, omit)
          [] wr.ctx = "forced" ->                       \* app.py:200-201
                [w1 EXCEPT !.pc = "gh", !.ctx = "-", !.ghCaller = "retry"]
          [] OTHER ->                                   \* auth_callback
                Respond([w1 EXCEPT !.ctx = "-"], "exchange_ok", 200, 0)

\* what the caller of save_tokens does when it raises OSError
AfterSaveError(wr, omit) ==
    LET w1 == [wr EXCEPT !.log = Append(@, Ev("save_err", "-", "-", 0)), !.toWrite = <<>>]
    IN  IF variant = "App"
        THEN IF wr.ctx = "gh" THEN GhRaise(w1, "OSError")
             ELSE ServerError([w1 EXCEPT !.ctx = "-"])
        ELSE CASE wr.ctx = "gh"     -> GhReturn_app(w1, None, omit)     \* app.py:118-119
               [] wr.ctx = "forced" -> Relay([w1 EXCEPT !.ctx = "-"])  \* app.py:208-209
               [] OTHER             -> auth_callback_except(w1)

\* open(TOKENS_FILE, "w"): creates or truncates the file
save_tokens_open(w) ==
    /\ workers[w].pc = "save_open"
    /\ LET wr == [workers[w] EXCEPT !.log = Append(@, Ev("save_begin", "-", "-", 0)),
                                    !.ghSaves = IF workers[w].ctx = "gh" THEN @ + 1 ELSE @] IN
         \/ /\ file' = <<>>
            /\ workers' = [workers EXCEPT ![w] =
                   [wr EXCEPT !.pc = "save_write", !.toWrite = json_dump(wr.tokens),
                              !.over = file]]
         \/ /\ file' = file                              \* OSError on open
            /\ \E omit \in OmitChoices(wr.route) :
                 workers' = [workers EXCEPT ![w] = AfterSaveError(wr, omit)]
    /\ UNCHANGED Others

\* json.dump(data, f) and the close of the with-block
save_tokens_write(w) ==
    /\ workers[w].pc = "save_write"
    /\ LET wr  == workers[w]
           off == Len(json_dump(wr.tokens)) - Len(wr.toWrite)
       IN
         \/ \E k \in FlushSizes(Len(wr.toWrite)) :
              LET rest == SubSeq(wr.toWrite, k + 1, Len(wr.toWrite)) IN
              /\ file' = WriteAt(file, off, SubSeq(wr.toWrite, 1, k))
              /\ IF rest = <<>>
                 THEN \E omit \in OmitChoices(wr.route) :
                        workers' = [workers EXCEPT ![w] = AfterSave(wr, omit)]
                 ELSE workers' = [workers EXCEPT ![w] = [wr EXCEPT !.toWrite = rest]]
         \/ /\ file' = file                              \* OSError on write
            /\ \E omit \in OmitChoices(wr.route) :
                 workers' = [workers EXCEPT ![w] = AfterSaveError(wr, omit)]
    /\ UNCHANGED Others

\* ------------------------------------------------- downstream provider
Statuses == {200, 401, 500}
TimedOut == 0                       \* requests raises instead of answering
Answer(st, n) == [kind |-> "downstream", status |-> st, body |-> n]

Answered(wr, st) == [wr EXCEPT !.log = Append(@, Ev("answer", "-", "-", st))]

\* mutant: the answer of the retry is treated like the first answer
gmail_unread_retries_twice(wr, st, f) ==
    IF wr.n <= 2
    THEN IF st = TimedOut THEN ServerError(wr)
         ELSE LET w1 == [wr EXCEPT !.r = Answer(st, wr.n)] IN
              IF st = 401
              THEN LET tokens == load_tokens(f)
                       w2     == [w1 EXCEPT !.log = Append(@, Ev("load", "-", "-", 0))]
                   IN  IF Has(tokens, "refresh_token")
                       THEN SendRefresh(w2, "forced", tokens["refresh_token"])
                       ELSE Relay(w2)
              ELSE Relay(w1)
    ELSE IF st = TimedOut THEN Relay(wr)
         ELSE Relay([wr EXCEPT !.r = Answer(st, wr.n)])

\* app.py gmail_unread, lines 190-210: r, the forced refresh and the retry
gmail_unread(wr, st, f) ==
    IF wr.n = 1
    THEN IF st = TimedOut THEN ServerError(wr)
         ELSE LET w1 == [wr EXCEPT !.r = Answer(st, 1)] IN
              IF st = 401
              THEN LET tokens == load_tokens(f)
                       w2     == [w1 EXCEPT !.log = Append(@, Ev("load", "-", "-", 0))]
                   IN  IF Has(tokens, "refresh_token")
                       THEN SendRefresh(w2, "forced", tokens["refresh_token"])
                       ELSE Relay(w2)
              ELSE Relay(w1)
    ELSE IF st = TimedOut THEN Relay(wr)                      \* except Exception: pass
         ELSE Relay([wr EXCEPT !.r = Answer(st, 2)])

\* app.py gmail_unread_detail, lines 267-293: the list, then one call per message
gmail_unread_detail(wr, st, m) ==
    IF st = TimedOut THEN ServerError(wr)
    ELSE IF wr.n = 1
         THEN IF m = 0 THEN Respond(wr, "detail", 200, 0)
              ELSE IssueCall([wr EXCEPT !.left = m], wr.headers)
         ELSE IF wr.left = 1 THEN Respond([wr EXCEPT !.left = 0], "detail", 200, 0)
              ELSE IssueCall([wr EXCEPT !.left = wr.left - 1], wr.headers)

\* app.py gmail_reply, lines 310-346: fetch the original, then send
gmail_reply(wr, st) ==
    IF st = TimedOut THEN ServerError(wr)
    ELSE IF wr.n = 1 THEN IssueCall(wr, wr.headers)
         ELSE Relay([wr EXCEPT !.r = Answer(st, 2)])

\* every other handler: one call, relayed
relay_one(wr, st) ==
    IF st = TimedOut THEN ServerError(wr)
    ELSE Relay([wr EXCEPT !.r = Answer(st, wr.n)])

\* the provider answers (or the call times out)
Downstream(w) ==
    /\ workers[w].pc = "call"
    /\ \E st \in Statuses \cup {TimedOut}, m \in 0..MaxMsgs :
         /\ (m > 0 => st = 200 /\ workers[w].route = "/gmail/unread_detail"
                               /\ variant = "app" /\ workers[w].n = 1)
         /\ LET wr == Answered(workers[w], st) IN
            workers' = [workers EXCEPT ![w] =
               IF variant = "App" THEN relay_one(wr, st)
               ELSE CASE wr.route = "/gmail/unread"        -> gmail_unread(wr, st, file)
                      [] wr.route = "/gmail/unread_detail" -> gmail_unread_detail(wr, st, m)
                      [] wr.route = "/gmail/reply"         -> gmail_reply(wr, st)
                      [] OTHER                             -> relay_one(wr, st)]
    /\ UNCHANGED <<file, Others>>

\* ------------------------------------------------------------ requests
Begin(route, given) ==
    [IdleWorker EXCEPT !.route = route, !.given = given, !.file0 = file]

\* a caller sends a request to one of the given proxied routes
RequestOn(w, routes) ==
    /\ workers[w].pc = "idle"
    /\ \E route \in routes, given \in GivenKeys :
         LET wr == Begin(route, given)
             rejected == IF variant = "app" THEN require_api_key_rejects(API_KEY, given)
                         ELSE App_require_api_key_rejects(API_KEY, given)
         IN  workers' = [workers EXCEPT ![w] =
               IF rejected THEN _forbidden(wr)
               ELSE [wr EXCEPT !.pc = "gh", !.ghCaller = "first"]]
    /\ UNCHANGED <<file, Others>>

Request(w) == RequestOn(w, ProxyRoutes(variant))

\* GET /auth/start: the consent redirect
auth_start(w) ==
    /\ workers[w].pc = "idle"
    /\ \E given \in GivenKeys :
         LET wr == Begin("/auth/start", given) IN
         workers' = [workers EXCEPT ![w] =
            IF variant = "app" /\ require_api_key_rejects(API_KEY, given)
            THEN _forbidden(wr)
            ELSE Respond(wr, "redirect", 302, 0)]
    /\ UNCHANGED <<file, Others>>

\* GET /auth/callback up to the POST to the token endpoint
auth_callback(w) ==
    /\ workers[w].pc = "idle"
    /\ \E code \in {"code", ""} :
         LET wr == Begin("/auth/callback", "-") IN
         workers' = [workers EXCEPT ![w] =
            IF code = "" THEN Respond(wr, "missing_code", 400, 0)
            ELSE [wr EXCEPT !.pc = "exchange", !.ctx = "exchange",
                            !.log = Append(@, Ev("exchange_call", code, "-", 0))]]
    /\ UNCHANGED <<file, Others>>

\* app.py _exchange_code_for_tokens: the token endpoint answers the exchange
_exchange_code_for_tokens(w) ==
    /\ variant = "app"
    /\ workers[w].pc = "exchange"
    /\ LET wr == workers[w] IN
         \/ \E why \in TokenFailures :
              workers' = [workers EXCEPT ![w] =
                 auth_callback_except([wr EXCEPT !.log = Append(@, Ev("exchange_fail", why, "-", 0))])]
         \/ \E ans \in TokenAnswers :
              LET at == ans[1]  rt == ans[2]  ttl == ans[3] IN
              workers' = [workers EXCEPT ![w] =
                 [wr EXCEPT !.pc = "save_open",
                            !.tokens = ExchangeTokens_app(TokenBody(at, rt, ttl), now),
                            !.log = Append(@, Ev("exchange_ok", rt, at, ttl))]]
    /\ UNCHANGED <<file, Others>>

\* App.py auth_callback, lines 83-86: the token endpoint answers the exchange
App_auth_callback(w) ==
    /\ variant = "App"
    /\ workers[w].pc = "exchange"
    /\ LET wr == workers[w] IN
         \/ \E why \in TokenFailures :
              workers' = [workers EXCEPT ![w] =
                 ServerError([wr EXCEPT !.log = Append(@, Ev("exchange_fail", why, "-", 0)), !.ctx = "-"])]
         \/ \E ans \in TokenAnswers :
              LET at == ans[1]  rt == ans[2]  ttl == ans[3] IN
              workers' = [workers EXCEPT ![w] =
                 [wr EXCEPT !.pc = "save_open",
                            !.tokens = ExchangeTokens_App(TokenBody(at, rt, ttl), now),
                            !.log = Append(@, Ev("exchange_ok", rt, at, ttl))]]
    /\ UNCHANGED <<file, Others>>

\* the answer has been sent; the worker takes the next request
Reply(w) ==
    /\ workers[w].pc = "done"
    /\ workers' = [workers EXCEPT ![w] = IdleWorker]
    /\ UNCHANGED <<file, Others>>

\* the clock advances: between requests, while a worker waits for the token
\* endpoint, and before the expiry test of the retry (these are all the
\* places between two reads of time.time())
MaxTime == MaxTicks * MARGIN
ClockMayAdvance ==
    \/ \A w \in Workers : workers[w].pc = "idle"
    \/ \E w \in Workers : workers[w].pc \in {"refresh", "exchange"}
    \/ \E w \in Workers : workers[w].pc = "gh" /\ workers[w].ghCaller = "retry"
Tick ==
    /\ now < MaxTime
    /\ ClockMayAdvance
    /\ now' = now + MARGIN
    /\ UNCHANGED <<variant, API_KEY, file, workers>>

Step(w) ==
    \/ _google_headers(w) \/ _refresh_access_token(w)
    \/ get_access_token(w) \/ refresh_access_token(w)
    \/ _exchange_code_for_tokens(w) \/ App_auth_callback(w)
    \/ save_tokens_open(w) \/ save_tokens_write(w)
    \/ Downstream(w)

Handle(w) ==
    \/ Request(w) \/ auth_start(w) \/ auth_callback(w)
    \/ Step(w) \/ Reply(w)

\* one worker process: requests are handled one at a time
Next == Tick \/ Handle("w1")
Spec == Init /\ [][Next]_vars

\* Several worker processes share the token file.  Each worker is followed
\* through one request, a refreshing route or a code exchange, started at
\* time 0 from an empty store or from a store that an earlier code exchange
\* at time 0 left behind, still fresh or already expired.
ConcRoutes  == {"/calendar/events"}
ConcAnswers == { <<"a1", "r1", 120>>, <<"a2", "r2", 30>> }

StoresAfterExchange ==
    { json_dump(IF variant = "app" THEN ExchangeTokens_app(TokenBody(a[1], a[2], a[3]), 0)
                ELSE ExchangeTokens_App(TokenBody(a[1], a[2], a[3]), 0)) : a \in ConcAnswers }

InitConc ==
    /\ variant \in Variants
    /\ API_KEY = "k"
    /\ file \in {NoFile} \cup StoresAfterExchange
    /\ now = 0
    /\ workers = [w \in Workers |-> IdleWorker]

RequestConc(w) == RequestOn(w, ConcRoutes)

NextConc == \E w \in Workers : RequestConc(w) \/ auth_callback(w) \/ Step(w)
SpecConc == InitConc /\ [][NextConc]_vars

\* One request or code exchange followed to its answer, from the same stores.
\* Every step of a handler is eventually taken: the calls to the provider and
\* to the token endpoint carry a timeout, the rest is straight-line code.
NextLive == Request("w1") \/ auth_callback("w1") \/ Step("w1")
SpecLive == InitConc /\ [][NextLive]_vars /\ WF_vars(Step("w1"))

\* The refresh decision of the two variants side by side: the same token
\* endpoint answer is turned into a record by app.py (kept by w1) and by
\* App.py (kept by w2) at the same instant, the clock advances, and each
\* variant applies its expiry test to its own record.
DecideTTLs == {NoTTL, 30, 60, 61, 120}

Acquire ==
    /\ \A w \in Workers : workers[w].pc = "idle"
    /\ now % MARGIN = 0 /\ now <= MaxTime
    /\ \E ttl \in DecideTTLs, how \in {"exchange", "refresh"} :
         LET body == TokenBody("a1", "r1", ttl)
             rec  == [w \in Workers |->
                        IF how = "exchange"
                        THEN IF w = "w1" THEN ExchangeTokens_app(body, now)
                                         ELSE ExchangeTokens_App(body, now)
                        ELSE IF w = "w1" THEN MergeRefresh_app(body, "r1", now)
                                         ELSE MergeRefresh_App(body, "r1", now)]
         IN  workers' = [w \in Workers |->
                [IdleWorker EXCEPT !.pc = "gh", !.ctx = how, !.tokens = rec[w], !.ghNow = now]]
    /\ UNCHANGED <<file, Others>>

Advance ==
    /\ \A w \in Workers : workers[w].pc \in {"idle", "gh"}
    /\ \E d \in {1, 10, MARGIN, 1000} :
         /\ now + d <= MaxInstant
         /\ now' = now + d
    /\ UNCHANGED <<variant, API_KEY, file, workers>>

\* app.py:112 on w1's record, App.py:55 on w2's record
Decide ==
    /\ \A w \in Workers : workers[w].pc = "gh"
    /\ workers' = [w \in Workers |->
          [workers[w] EXCEPT !.pc = "done",
               !.ghResult = IF w = "w1"
                            THEN IF IsExpired_app(workers[w].tokens, now) THEN "refresh" ELSE "use"
                            ELSE IF IsExpired_App(workers[w].tokens, now) THEN "refresh" ELSE "use"]]
    /\ UNCHANGED <<file, Others>>

InitDecide ==
    /\ variant = "app" /\ API_KEY = "k" /\ file = NoFile /\ now = 0
    /\ workers = [w \in Workers |-> IdleWorker]

NextDecide == Acquire \/ Advance \/ Decide
SpecDecide == InitDecide /\ [][NextDecide]_vars

\* =================================================================
\* Properties
\* =================================================================
Idx(log, e) == {i \in 1..Len(log) : log[i].e = e}
MaxOf(S)    == CHOOSE x \in S : \A y \in S : y <= x
MinOf(S)    == CHOOSE x \in S : \A y \in S : x <= y
Count(log, e) == Cardinality(Idx(log, e))

\* the latest invocation of _google_headers / get_access_token in a request
\* has returned (or raised)
GhReturned(wr) == wr.ghResult \notin {"-", "pending"}

\* the instant from which the credential counts as expired: app.py stores it,
\* App.py stores the literal expiry and subtracts the margin when testing
EffectiveExpiry(tokens) ==
    IF variant = "app" THEN Get(tokens, "expires_at", 0)
    ELSE Get(tokens, "expires_at", 0) - MARGIN

LoadedFresh(wr)   == DOMAIN wr.ghTokens # {} /\ EffectiveExpiry(wr.ghTokens) > wr.ghNow
LoadedExpired(wr) == DOMAIN wr.ghTokens # {} /\ wr.ghNow >= EffectiveExpiry(wr.ghTokens)

\* C1: a stored credential whose (margin-adjusted) expires_at is strictly
\* later than now is used as it is: no call to the token endpoint, no write
\* of the store, and the stored access_token is what is returned.
C1_FreshCredentialUsedAsIs ==
    \A w \in Workers :
        LET wr == workers[w] IN
        (GhReturned(wr) /\ LoadedFresh(wr)) =>
            /\ wr.ghCalls = 0
            /\ wr.ghSaves = 0
            /\ Has(wr.ghTokens, "access_token") =>
                   wr.ghResult = wr.ghTokens["access_token"]

C1_Witness ==
    \E w \in Workers :
        LET wr == workers[w] IN
        /\ GhReturned(wr) /\ LoadedFresh(wr)
        /\ Has(wr.ghTokens, "access_token")
        /\ wr.pc = "call" /\ wr.headers = wr.ghTokens["access_token"]

\* C2 as stated: every expired stored credential gets exactly one refresh
\* call per invocation.
C2_Original ==
    \A w \in Workers :
        LET wr == workers[w] IN
        (GhReturned(wr) /\ LoadedExpired(wr)) => wr.ghCalls = 1

\* C2 amended: an expired stored credential that holds a refresh_token gets
\* exactly one refresh call per invocation, answered once (success or
\* failure); one without a refresh_token gets none.
C2_OneRefreshWhenRefreshTokenHeld ==
    \A w \in Workers :
        LET wr == workers[w] IN
        (GhReturned(wr) /\ LoadedExpired(wr)) =>
            IF Has(wr.ghTokens, "refresh_token")
            THEN /\ wr.ghCalls = 1
                 /\ wr.ghAnswer \in {"ok", "fail"}
            ELSE wr.ghCalls = 0

C2_Witness ==
    \E w \in Workers :
        LET wr == workers[w] IN
        /\ GhReturned(wr) /\ LoadedExpired(wr)
        /\ Has(wr.ghTokens, "refresh_token")
        /\ wr.ghCalls = 1
        /\ wr.ghAnswer = "fail"

\* the step in which worker w's save_tokens returns normally
SaveCompletes(w) ==
    /\ workers[w].pc = "save_write"
    /\ Len(workers'[w].log) > Len(workers[w].log)
    /\ workers'[w].log[Len(workers[w].log) + 1].e = "save_end"

LastOf(wr, e) == wr.log[MaxOf(Idx(wr.log, e))]

\* C3: whenever a refresh whose answer omits refresh_token is persisted, the
\* persisted record holds the refresh_token that the store held when the
\* refresh was sent; this is a property of every such step, so of every
\* refresh in a row.
C3_RefreshTokenCarriedForward ==
    [][\A w \in Workers :
          (SaveCompletes(w) /\ workers[w].ctx \in {"gh", "forced"}
                            /\ LastOf(workers[w], "refresh_ok").a = Absent)
          => /\ Has(load_tokens(file'), "refresh_token")
             /\ Has(load_tokens(workers[w].before), "refresh_token")
             /\ load_tokens(file')["refresh_token"] = load_tokens(workers[w].before)["refresh_token"]]_vars

C3_Witness ==
    \E w \in Workers :
        LET wr == workers[w] IN
        /\ Count(wr.log, "refresh_ok") = 2
        /\ \A i \in Idx(wr.log, "refresh_ok") : wr.log[i].a = Absent
        /\ Count(wr.log, "save_end") = 2
        /\ wr.pc = "call"
        /\ load_tokens(file)["refresh_token"] = load_tokens(wr.file0)["refresh_token"]

\* the store as the deployed variant's load_tokens reads it
Stored == IF variant = "app" THEN load_tokens(file) ELSE App_load_tokens(file).value

\* C4: an expired credential whose refresh call fails makes
\* get_valid_access_token return absent, the caller answers Not Authorized,
\* and the store is what it was before the call.
C4_Claim ==
    \A w \in Workers :
        LET wr == workers[w] IN
        (wr.pc = "done" /\ wr.ghCaller = "first" /\ LoadedExpired(wr) /\ wr.ghAnswer = "fail") =>
            /\ wr.ghResult = None
            /\ wr.resp.kind = "need_auth"
            /\ file = wr.file0

\* C5: a code exchange that the token endpoint fails (network error or
\* non-success status) ends in a failure answer, persists nothing, and leaves
\* the store as it was.
C5_FailedExchangeLeavesStore ==
    \A w \in Workers :
        LET wr == workers[w] IN
        (wr.pc = "done" /\ wr.route = "/auth/callback" /\ Count(wr.log, "exchange_fail") = 1) =>
            /\ wr.resp.kind \in {"exchange_err", "server_error"}
            /\ wr.resp.status >= 400
            /\ Count(wr.log, "save_begin") = 0
            /\ file = wr.file0

C5_Witness ==
    \E w \in Workers :
        LET wr == workers[w] IN
        /\ wr.pc = "done" /\ wr.route = "/auth/callback"
        /\ Count(wr.log, "exchange_fail") = 1
        /\ wr.file0 # NoFile /\ WellFormed(wr.file0)
        /\ file = wr.file0

\* the record without the field the broker adds
ProviderFields(t) == [k \in (DOMAIN t) \ {"expires_at"} |-> t[k]]

\* C6: after a successful code exchange, loading the store gives a record
\* whose access_token, refresh_token and other provider fields are exactly
\* those of the exchange answer, whatever the store held before.
C6_ExchangeRoundTrip ==
    \A w \in Workers :
        LET wr == workers[w] IN
        (wr.pc = "done" /\ wr.resp.kind = "exchange_ok") =>
            LET ans == LastOf(wr, "exchange_ok") IN
            /\ Has(Stored, "expires_at")
            /\ ProviderFields(Stored) = TokenBody(ans.b, ans.a, ans.n)

C6_Witness ==
    \E w \in Workers :
        LET wr == workers[w] IN
        /\ wr.pc = "done" /\ wr.resp.kind = "exchange_ok"
        /\ WellFormed(wr.file0)
        /\ Has(json_load(wr.file0), "access_token")
        /\ Has(Stored, "access_token")
        /\ Stored["access_token"] = LastOf(wr, "exchange_ok").b
        /\ Stored["access_token"] # json_load(wr.file0)["access_token"]

\* C7: whenever get_valid_access_token returns absent, the request is
\* answered Not Authorized and no downstream call is issued.
C7_Claim ==
    \A w \in Workers :
        LET wr == workers[w] IN
        (wr.route \in ProxyRoutes(variant) /\ GhReturned(wr) /\ wr.ghResult = None) =>
            /\ wr.pc = "done"
            /\ wr.resp.kind = "need_auth"
            /\ Count(wr.log, "call") = 0

FirstAnswer(wr) == wr.log[MinOf(Idx(wr.log, "answer"))].n
ForcedRefreshes(wr) == {i \in Idx(wr.log, "refresh_call") : wr.log[i].b = "forced"}

\* C8: on every proxied route, a first downstream answer of 401 is followed
\* by one forced refresh and one retry, and the caller gets the retry's answer.
C8_Claim ==
    \A w \in Workers :
        LET wr == workers[w] IN
        (wr.pc = "done" /\ wr.route \in ProxyRoutes(variant)
            /\ Count(wr.log, "answer") >= 1 /\ FirstAnswer(wr) = 401) =>
            /\ Cardinality(ForcedRefreshes(wr)) = 1
            /\ Count(wr.log, "call") = 2
            /\ wr.resp.kind = "relay" /\ wr.resp.body = 2

\* the request found an expired credential and the refresh gave a new token
RefreshedOnEntry(wr) ==
    /\ Len(wr.log) >= 4
    /\ wr.log[3].e = "refresh_call" /\ wr.log[3].b = "gh"
    /\ wr.log[4].e = "refresh_ok" /\ wr.log[4].b # Absent

\* C9 as stated, for every proxied request that carries its required fields,
\* whose save does not fail and whose downstream calls are answered: one
\* refresh call, the save, one downstream call with the refreshed token, and
\* the downstream status relayed.
C9_Original ==
    \A w \in Workers :
        LET wr == workers[w] IN
        (wr.pc = "done" /\ wr.route \in ProxyRoutes(variant) /\ RefreshedOnEntry(wr)
            /\ wr.omit = "none" /\ Count(wr.log, "save_err") = 0
            /\ \A i \in Idx(wr.log, "answer") : wr.log[i].n # TimedOut) =>
            /\ Count(wr.log, "refresh_call") = 1
            /\ Count(wr.log, "call") = 1
            /\ wr.resp = [kind |-> "relay", status |-> FirstAnswer(wr), body |-> 1]

\* routes whose handler makes one downstream call and relays it
OneCallRoutes == ProxyRoutes(variant) \ {"/gmail/unread_detail", "/gmail/reply"}

\* C9 amended: on a route that makes a single relayed call, unless the route
\* is /gmail/unread and the provider answers 401 (which starts the forced
\* refresh and the retry), the request is exactly: load, one refresh call,
\* its answer, the save, the return of the refreshed token, one downstream
\* call carrying that token, its answer relayed with its status.
C9_RefreshThenSaveThenOneCall ==
    \A w \in Workers :
        LET wr == workers[w] IN
        (wr.pc = "done" /\ wr.route \in OneCallRoutes /\ RefreshedOnEntry(wr)
            /\ wr.omit = "none" /\ Count(wr.log, "save_err") = 0
            /\ \A i \in Idx(wr.log, "answer") : wr.log[i].n # TimedOut
            /\ ~(wr.route = "/gmail/unread" /\ variant = "app" /\ FirstAnswer(wr) = 401)) =>
            LET new == wr.log[4].b IN
            /\ wr.log = << Ev("gh_begin", "-", "-", 0), Ev("load", "-", "-", 0),
                           wr.log[3], wr.log[4],
                           Ev("save_begin", "-", "-", 0), Ev("save_end", "-", "-", 0),
                           Ev("gh_end", new, "-", 0), Ev("call", new, "-", 1),
                           Ev("answer", "-", "-", FirstAnswer(wr)) >>
            /\ Stored["access_token"] = new
            /\ wr.resp = [kind |-> "relay", status |-> FirstAnswer(wr), body |-> 1]

C9_Witness ==
    \E w \in Workers :
        LET wr == workers[w] IN
        /\ wr.pc = "done" /\ wr.route = "/calendar/events" /\ RefreshedOnEntry(wr)
        /\ Count(wr.log, "call") = 1
        /\ Has(wr.ghTokens, "access_token") /\ wr.ghTokens["access_token"] # wr.log[4].b
        /\ wr.headers = wr.log[4].b
        /\ wr.resp.kind = "relay" /\ wr.resp.status = 500
\* worker w reads the token file in this step
Loads(w) == Count(workers'[w].log, "load") > Count(workers[w].log, "load")

\* C10: a load that happens while another worker is inside save_tokens sees
\* the complete record from before that save or the complete record it is
\* writing, never an empty or half-written file.
C10_Claim ==
    [][\A w, v \in Workers :
          (w # v /\ Loads(w) /\ workers[v].pc = "save_write")
          => file \in {workers[v].over, json_dump(workers[v].tokens)}]_vars

\* C11: a request or a code exchange during which save_tokens raised ends
\* with an internal-error answer: not Not Authorized, not the exchange
\* error, not a relayed downstream answer, not success.
C11_Claim ==
    \A w \in Workers :
        LET wr == workers[w] IN
        (wr.pc = "done" /\ Count(wr.log, "save_err") >= 1) =>
            wr.resp.kind = "server_error"

\* the routes behind the shared-secret check
KeyProtected == ProxyRoutes(variant) \cup (IF variant = "app" THEN {"/auth/start"} ELSE {})

\* C12: with a non-empty configured secret, a request to a key-protected
\* route with another x-api-key is answered Forbidden with no load, refresh,
\* write or downstream call; with an empty or unset secret no request is
\* answered Forbidden.
C12_Claim ==
    \A w \in Workers :
        LET wr == workers[w] IN
        (wr.pc = "done" /\ wr.route \in KeyProtected) =>
            /\ (API_KEY # "" /\ wr.given # API_KEY) =>
                   (wr.resp.kind = "forbidden" /\ wr.log = <<>> /\ file = wr.file0)
            /\ (API_KEY = "") => wr.resp.kind # "forbidden"

\* C13: a request that omits a field its route requires is answered Bad
\* Request and no downstream call is issued, whatever the store holds.
C13_Claim ==
    \A w \in Workers :
        LET wr == workers[w] IN
        (wr.pc = "done" /\ wr.route \in ProxyRoutes(variant)
            /\ wr.omit \in RequiredFields(wr.route)) =>
            /\ wr.resp.kind = "bad_request"
            /\ Count(wr.log, "call") = 0

\* the file does not parse as a record
Corrupt(f) == f # NoFile /\ ~WellFormed(f)

\* C14: a request that finds no token file, or one that does not parse, is
\* answered Not Authorized, with no error, no refresh and no downstream call.
C14_Claim ==
    \A w \in Workers :
        LET wr == workers[w] IN
        (wr.pc = "done" /\ wr.route \in ProxyRoutes(variant) /\ wr.resp.kind # "forbidden"
            /\ (wr.file0 = NoFile \/ Corrupt(wr.file0))) =>
            /\ wr.resp.kind = "need_auth"
            /\ wr.ghResult = None
            /\ Count(wr.log, "refresh_call") = 0
            /\ Count(wr.log, "call") = 0

\* the token endpoint answer that the save in progress persists
SavedAnswer(wr) ==
    IF wr.ctx = "exchange" THEN LastOf(wr, "exchange_ok") ELSE LastOf(wr, "refresh_ok")

\* the expiry test of the deployed variant
IsExpired(tokens, t) ==
    IF variant = "app" THEN IsExpired_app(tokens, t) ELSE IsExpired_App(tokens, t)

\* C15 as stated: whenever a code exchange or a refresh answered at t0 = now
\* with expires_in = ttl is persisted, the stored expires_at is
\* t0 + ttl - MARGIN, and the stored credential counts as expired exactly
\* from that instant on.
C15_Original ==
    [][\A w \in Workers :
          (SaveCompletes(w) /\ SavedAnswer(workers[w]).n # NoTTL)
          => LET ttl == SavedAnswer(workers[w]).n
                 rec == load_tokens(file')
             IN  /\ Has(rec, "expires_at")
                 /\ rec["expires_at"] = now + ttl - MARGIN
                 /\ \A t \in now..(now + ttl + MARGIN) :
                        IsExpired(rec, t) <=> t >= now + ttl - MARGIN]_vars

\* the instants around the literal expiry t0 + ttl of a credential
Instants(t0, ttl) ==
    {t0, t0 + ttl - MARGIN - 1, t0 + ttl - MARGIN, t0 + ttl - 1, t0 + ttl, t0 + ttl + MARGIN}

\* C15 amended: whenever a code exchange or a refresh answered at t0 = now
\* with expires_in = ttl is persisted, the stored credential counts as
\* expired exactly from t0 + ttl - MARGIN on, before its literal expiry:
\* app.py stores expires_at = t0 + ttl - MARGIN and compares it with now,
\* App.py stores expires_at = t0 + ttl and subtracts MARGIN when it tests.
C15_ExpiredFromMarginBeforeExpiry ==
    [][\A w \in Workers :
          (SaveCompletes(w) /\ SavedAnswer(workers[w]).n # NoTTL)
          => LET ttl == SavedAnswer(workers[w]).n
                 rec == load_tokens(file')
             IN  /\ Has(rec, "expires_at")
                 /\ rec["expires_at"] = IF variant = "app" THEN now + ttl - MARGIN
                                                           ELSE now + ttl
                 /\ \A t \in Instants(now, ttl) :
                        IsExpired(rec, t) <=> t >= now + ttl - MARGIN]_vars

C15_Witness ==
    \E w \in Workers :
        LET wr == workers[w] IN
        /\ variant = "App" /\ now = MARGIN
        /\ wr.pc = "call" /\ RefreshedOnEntry(wr) /\ wr.log[4].n = 30
        /\ Count(wr.log, "save_end") = 1
        /\ Stored["expires_at"] = MARGIN + 30
        /\ IsExpired(Stored, now)

\* C16: when the refresh of an expired credential is answered 2xx without
\* access_token, get_valid_access_token returns absent and the token file is
\* what it was when the credential was loaded.
C16_Claim ==
    \A w \in Workers :
        LET wr == workers[w] IN
        (GhReturned(wr) /\ wr.ghCaller = "first" /\ LoadedExpired(wr)
            /\ wr.ghAnswer = "ok" /\ Count(wr.log, "refresh_call") = 1
            /\ LastOf(wr, "refresh_ok").b = Absent) =>
            /\ wr.ghResult = None
            /\ file = wr.ghFile

\* a forced refresh of the request was answered with a failure
ForcedRefreshFailed(wr) ==
    \E i \in ForcedRefreshes(wr) : i < Len(wr.log) /\ wr.log[i + 1].e = "refresh_fail"

\* C17 as stated: a request makes at most one forced refresh and at most two
\* downstream calls, and when the forced refresh fails the first downstream
\* answer is relayed with its status and body.
C17_Original ==
    \A w \in Workers :
        LET wr == workers[w] IN
        wr.route \in ProxyRoutes(variant) =>
            /\ Cardinality(ForcedRefreshes(wr)) <= 1
            /\ Count(wr.log, "call") <= 2
            /\ (wr.pc = "done" /\ ForcedRefreshFailed(wr)) =>
                   wr.resp = [kind |-> "relay", status |-> 401, body |-> 1]

\* the outbound calls of a request stay within these numbers
CallsBounded(wr) ==
    /\ Cardinality(ForcedRefreshes(wr)) <= 1
    /\ Count(wr.log, "refresh_call") <= 3
    /\ Count(wr.log, "call") <=
           (IF wr.route = "/gmail/unread_detail" THEN 1 + MaxMsgs ELSE 2)
    /\ (wr.pc = "done" /\ ForcedRefreshFailed(wr)) =>
           wr.resp = [kind |-> "relay", status |-> 401, body |-> 1]

\* C17 amended: every request that has started is answered; it makes at most
\* one forced refresh, at most three refresh calls in all (on entry, forced,
\* before the retry), at most two downstream calls, or one list call and one
\* call per listed message on /gmail/unread_detail; when the forced refresh
\* fails the first downstream answer is relayed with its status and body.
C17_RequestTerminatesWithBoundedCalls ==
    /\ [](\A w \in Workers : workers[w].route \in ProxyRoutes(variant) => CallsBounded(workers[w]))
    /\ (workers["w1"].pc \notin {"idle", "done"}) ~> (workers["w1"].pc = "done")

C17_Witness ==
    \E w \in Workers :
        LET wr == workers[w] IN
        /\ wr.pc = "done" /\ wr.route = "/gmail/unread"
        /\ ForcedRefreshFailed(wr)
        /\ Count(wr.log, "call") = 1
        /\ wr.resp = [kind |-> "relay", status |-> 401, body |-> 1]

\* a load of this file gives a record (neither absent nor empty)
Present(f) == f # NoFile /\ WellFormed(f) /\ DOMAIN json_load(f) # {}

\* C18: over a request or a code exchange, a store that was absent becomes
\* present only when a code exchange succeeded, and a store that was present
\* is still present when the answer is sent.
C18_Claim ==
    \A w \in Workers :
        LET wr == workers[w] IN
        wr.pc = "done" =>
            /\ (~Present(wr.file0) /\ Present(file)) => wr.resp.kind = "exchange_ok"
            /\ Present(wr.file0) => Present(file)

\* C19: whenever a refresh whose answer carries a refresh_token is persisted,
\* the persisted record holds the refresh_token of the answer.
C19_Claim ==
    [][\A w \in Workers :
          (SaveCompletes(w) /\ workers[w].ctx \in {"gh", "forced"}
                            /\ LastOf(workers[w], "refresh_ok").a # Absent)
          => /\ Has(load_tokens(file'), "refresh_token")
             /\ load_tokens(file')["refresh_token"] = LastOf(workers[w], "refresh_ok").a]_vars

\* C20: an expired stored credential without refresh_token makes
\* get_valid_access_token return absent, with no call to the token endpoint
\* and no write of the store.
C20_Claim ==
    \A w \in Workers :
        LET wr == workers[w] IN
        (GhReturned(wr) /\ LoadedExpired(wr) /\ ~Has(wr.ghTokens, "refresh_token")) =>
            /\ wr.ghResult = None
            /\ wr.ghCalls = 0
            /\ wr.ghSaves = 0
            /\ file = wr.ghFile

\* C21: when a code exchange has succeeded, every worker has finished and no
\* save has failed, the stored refresh_token is the one that exchange was
\* given, whatever a concurrent request that refreshes has loaded and saved.
C21_Claim ==
    \A w, v \in Workers :
        LET wr == workers[w]
            vr == workers[v]
        IN  (w # v /\ wr.pc = "done" /\ vr.pc = "done"
                /\ wr.route \in ProxyRoutes(variant)
                /\ vr.resp.kind = "exchange_ok"
                /\ Count(wr.log, "save_err") = 0
                /\ LastOf(vr, "exchange_ok").a # Absent) =>
            /\ Has(load_tokens(file), "refresh_token")
            /\ load_tokens(file)["refresh_token"] = LastOf(vr, "exchange_ok").a

\* the token has just been returned to the handler, which issues its call
JustReturned(wr) ==
    /\ wr.pc = "call" /\ Len(wr.log) >= 2
    /\ wr.log[Len(wr.log)].e = "call"
    /\ wr.log[Len(wr.log) - 1].e = "gh_end"
    /\ wr.ghResult # None

\* C22: at the instant get_valid_access_token returns a token and the
\* downstream call is issued with it, the stored record has that
\* access_token and an expires_at strictly later than now.
C22_Claim ==
    \A w \in Workers :
        LET wr == workers[w] IN
        JustReturned(wr) =>
            /\ Has(Stored, "access_token") /\ Stored["access_token"] = wr.ghResult
            /\ wr.headers = wr.ghResult
            /\ Has(Stored, "expires_at") /\ Stored["expires_at"] > now

\* both variants have taken their refresh decision on the same answer
Decided == \A w \in Workers : workers[w].pc = "done" /\ workers[w].ghResult \in {"refresh", "use"}

\* C23 as stated: the two variants take the same refresh decision at every
\* instant, whether or not the answer carried expires_in.
C23_Original ==
    Decided => workers["w1"].ghResult = workers["w2"].ghResult

\* C23 amended: for an answer that carries expires_in = ttl, received at t0,
\* both variants refresh exactly from t0 + ttl - MARGIN on; for an answer
\* without expires_in, app.py refreshes from t0 + 3600 - MARGIN on and App.py
\* from t0 + 3500 - MARGIN on.
C23_SameDecisionWhenTTLGiven ==
    Decided =>
        LET t0  == workers["w1"].ghNow
            ttl == Get(workers["w1"].tokens, "expires_in", NoTTL)
            app == workers["w1"].ghResult = "refresh"
            App == workers["w2"].ghResult = "refresh"
        IN  IF ttl # NoTTL
            THEN /\ app <=> App
                 /\ app <=> now >= t0 + ttl - MARGIN
            ELSE /\ app <=> now >= t0 + DEFAULT_TTL_app - MARGIN
                 /\ App <=> now >= t0 + DEFAULT_TTL_App - MARGIN

C23_Witness ==
    /\ Decided
    /\ Get(workers["w1"].tokens, "expires_in", NoTTL) = 120
    /\ now = workers["w1"].ghNow + 120 - MARGIN
    /\ workers["w1"].ghResult = "refresh" /\ workers["w2"].ghResult = "refresh"
    /\ workers["w1"].tokens["expires_at"] # workers["w2"].tokens["expires_at"]
====
